---- MODULE Spec2Model ----
(***************************************************************************)
(* A model of the multi-camera threat detection pipeline:                  *)
(*   - AlertManager  (src/detector/alert.py): cooldown, identifiers,       *)
(*     bounded history, acknowledgement, recent-alert queries;             *)
(*   - CameraStream  (src/detector/camera.py): capture thread, reconnect   *)
(*     backoff, single-slot frame buffer, stop().                          *)
(* Times are whole seconds; confidences are whole percents.                *)
(***************************************************************************)
EXTENDS Integers, Sequences, FiniteSets, TLC

VARIABLES
    now,              \* the wall clock read by time.time()
    alert_counter,    \* AlertManager.alert_counter
    last_alert_time,  \* AlertManager.last_alert_time : camera id -> time
    alerts,           \* AlertManager.alerts, oldest first
    callbacks,        \* AlertManager.callbacks, in registration order
    calls,            \* history: every check_and_alert call completed after the start, in order
    accepted,         \* history: every alert ever created, as created, in order
    ret,              \* history: what the last completed operation returned
    nAck,             \* history: number of acknowledge_alert calls made
    pc,               \* per caller thread: where it is in check_and_alert
    loc,              \* per caller thread: the call's arguments and locals
    url,              \* CameraStream.url
    running,          \* CameraStream.running
    connected,        \* CameraStream.connected
    use_test_pattern, \* CameraStream.use_test_pattern
    cap,              \* CameraStream.cap: "none", or the VideoCapture's state
    frame,            \* CameraStream.frame: the array it refers to, 0 for None
    bufs,             \* the frame arrays in memory: array -> pixels
    lock,             \* CameraStream.lock: "free" or its holder
    thread,           \* CameraStream.thread: "none" or the capture thread
    last_frame_time,  \* CameraStream.last_frame_time
    fps,              \* CameraStream.fps, as <<numerator, denominator>>
    produced,         \* the number of the last frame the source delivered
    drops,            \* history: how often an open source stopped delivering
    attempts,         \* history: how often _connect was called
    cpc,              \* per capture thread: where it is in _capture_loop
    cloc,             \* per capture thread: reconnect_delay, sleep left, frame
    rpc,              \* the get_frame caller: where it is in get_frame
    rloc,             \* the get_frame caller: the array copied, the copy so far
    got,              \* history: what the last get_frame call returned
    written,          \* history: the number of the frame last written
    spc,              \* the stop caller: where it is in stop
    join_left,        \* the stop caller: time left of join(timeout=2)
    stopTime,         \* history: the clock when stop was last called, 0 if never
    stoppedAsleep,    \* history: the threads stop found in their backoff sleep
    stops,            \* history: how often stop() was called
    dpc,              \* process_camera: where its thread is
    dloc,             \* process_camera: the frame and the threats it holds
    events,           \* history: the events emitted through socketio
    detects           \* history: how often detector.detect was called

amVars == <<alert_counter, last_alert_time, alerts, callbacks>>
histVars == <<calls, accepted, ret, nAck>>
thrVars == <<pc, loc>>
camFields == <<url, running, connected, use_test_pattern, cap, frame, bufs,
               lock, thread, last_frame_time, fps, produced, drops,
               attempts>>
capVars == <<cpc, cloc>>
readerVars == <<rpc, rloc, got, written>>
stopVars == <<spc, join_left, stopTime, stoppedAsleep, stops>>
camVars == <<camFields, capVars, readerVars, stopVars>>
alertVars == <<amVars, histVars, thrVars>>
stageVars == <<dpc, dloc, events, detects>>
vars == <<now, alertVars, camVars, stageVars>>

----------------------------------------------------------------------------
(* Program constants *)

\* config.ALERT_COOLDOWN, passed as AlertManager(cooldown_seconds=...)
cooldown_seconds == 10

\* "Keep only last 100 alerts"
HistoryLimit == 100

\* "max_reconnect_delay = 30"
max_reconnect_delay == 30

\* "self.thread.join(timeout=2)"
JoinTimeout == 2

(* Bounds of the model *)

\* how far the clock runs while the camera is modelled
MaxCamElapsed == 34
\* frames are numbered 1..MaxFrames, then from 1 again
MaxFrames == 2
\* an open source stops delivering at most this often
MaxDrops == 1
\* _connect is called at most this often
MaxAttempts == 6
\* stop() is called at most this often
MaxStops == 1
\* the pixels of a frame
FrameLen == 2

\* the clock when the process starts (time.time() is seconds since 1970)
StartTime == 2000
\* how far the clock runs after the start
MaxElapsed == 12
\* check_and_alert and acknowledge_alert calls made after the start
MaxOps == 3
\* check_and_alert calls made by the threads
MaxThreadCalls == 2
\* at most this many callbacks are registered
MaxCallbacks == 2
\* process_camera calls detector.detect at most this often
MaxDetects == 2
\* a warm start has a history this many alerts short of full
WarmShort == 1

(* Inputs *)

\* the capture threads start() may create
CapThreads == {"t1", "t2"}
\* the kinds of source: the test pattern, the local webcam, an RTSP address
Urls == {"test", "webcam", "rtsp"}

\* the threads that call check_and_alert (app.start_processing starts one
\* process_camera thread per camera)
Workers == {"w1", "w2"}

Cameras == {"cam1", "cam2"}
ThreatTypes == {"knife", "scissors"}
\* the callbacks that may be registered (app.py registers on_alert)
Observers == {"on_alert", "audit"}
\* the threats detector.get_threats may find in one frame
DetectResults == {<<>>, <<"knife">>, <<"knife", "scissors">>}
Confidences == {80}
\* the clock is read half a cooldown, or a second more, after the last reading
TickSteps == {cooldown_seconds \div 2, cooldown_seconds \div 2 + 1}
\* the counts get_recent_alerts is asked for (app.get_alerts asks for 20)
Counts == {0, 1, HistoryLimit}
\* the numbers n of the identifiers "alert_<n>" acknowledge_alert is asked for
AckNumbers == {0, 1, 2, HistoryLimit + 1}

----------------------------------------------------------------------------
(* Values *)

\* Optional[...]: None is the empty sequence, a value v is <<v>>
None == <<>>
Some(v) == <<v>>

\* the camera's display name (config.CAMERAS)
CameraName(camera_id) ==
    IF camera_id = "cam1" THEN "Main Entrance" ELSE "Hallway A"

\* f"alert_{self.alert_counter}"
AlertId(n) == <<"alert_", n>>

\* dict.get(key, default)
Get(d, key, default) == IF key \in DOMAIN d THEN d[key] ELSE default

\* a ledger write that keeps an entry already there (dict.setdefault)
PutIfAbsent(d, key, value) ==
    [k \in DOMAIN d \cup {key} |-> IF k \in DOMAIN d THEN d[k] ELSE value]

\* d[key] = value
Put(d, key, value) ==
    [k \in DOMAIN d \cup {key} |-> IF k = key THEN value ELSE d[k]]

\* the list slice s[start:] of Python, for any integer start
PySliceFrom(s, start) ==
    LET n == Len(s)
        first == IF start < 0
                 THEN (IF n + start < 0 THEN 0 ELSE n + start)
                 ELSE (IF start > n THEN n ELSE start)
    IN  [i \in 1..(n - first) |-> s[first + i]]

\* reversed(s)
Reversed(s) == [i \in 1..Len(s) |-> s[Len(s) + 1 - i]]

\* datetime.fromtimestamp(t).strftime("%H:%M:%S"), in UTC
TimeStr(t) == <<(t \div 3600) % 24, (t \div 60) % 60, t % 60>>

\* the Alert dataclass, as constructed in check_and_alert
Alert(n, camera_id, camera_name, threat_type, confidence, timestamp) ==
    [id |-> AlertId(n), camera_id |-> camera_id, camera_name |-> camera_name,
     threat_type |-> threat_type, confidence |-> confidence,
     timestamp |-> timestamp, acknowledged |-> FALSE]

\* Alert.to_dict: a new dict of the alert's fields plus the formatted time
to_dict(a) ==
    [id |-> a.id, camera_id |-> a.camera_id, camera_name |-> a.camera_name,
     threat_type |-> a.threat_type, confidence |-> a.confidence,
     timestamp |-> a.timestamp, time_str |-> TimeStr(a.timestamp),
     acknowledged |-> a.acknowledged]

----------------------------------------------------------------------------
(* AlertManager, one call at a time *)

\* a cooldown test that compares the wrong way round
InCooldownInverted(current_time, last_time) ==
    current_time - last_time >= cooldown_seconds

\* "if current_time - last_time < self.cooldown_seconds: return None"
InCooldown(current_time, last_time) ==
    current_time - last_time < cooldown_seconds

\* a trim that keeps the oldest alerts
TrimOldest(as) ==
    IF Len(as) > HistoryLimit THEN SubSeq(as, 1, HistoryLimit) ELSE as

\* "if len(self.alerts) > 100: self.alerts = self.alerts[-100:]"
Trim(as) ==
    IF Len(as) > HistoryLimit THEN PySliceFrom(as, 0 - HistoryLimit) ELSE as

\* a notification loop without the try: the first callback that raises
\* ends it
run_callbacks_abort_fn(cbs, fails) ==
    IF \E i \in 1..Len(cbs) : i \in fails
    THEN SubSeq(cbs, 1, CHOOSE i \in 1..Len(cbs) :
                           i \in fails /\ \A j \in 1..(i - 1) : j \notin fails)
    ELSE cbs

\* the callbacks called after position i, those at the positions in fails
\* raising
RECURSIVE CallbacksFrom(_, _, _)
CallbacksFrom(cbs, fails, i) ==
    IF i > Len(cbs) THEN <<>>
    ELSE IF i \in fails
    THEN \* the exception is caught and printed
         <<cbs[i]>> \o CallbacksFrom(cbs, fails, i + 1)
    ELSE \* the callback returns
         <<cbs[i]>> \o CallbacksFrom(cbs, fails, i + 1)

\* "for callback in self.callbacks: try: callback(alert) except Exception":
\* the callbacks called, in order, when those at the positions in fails raise
run_callbacks_fn(cbs, fails) == CallbacksFrom(cbs, fails, 1)

\* a check_and_alert that takes the next number before it tests the cooldown
check_and_alert_eager_fn(st, camera_id, threat_type, confidence, current_time, cbs) ==
    LET last_time == Get(st.last_alert_time, camera_id, 0)
        counter == st.alert_counter + 1
        alert == Alert(counter, camera_id, CameraName(camera_id),
                       threat_type, confidence, current_time)
    IN  IF InCooldown(current_time, last_time)
        THEN [st |-> [st EXCEPT !.alert_counter = counter],
              result |-> None, invoked |-> <<>>]
        ELSE [st |-> [alert_counter |-> counter,
                      last_alert_time |->
                          Put(st.last_alert_time, camera_id, current_time),
                      alerts |-> Trim(Append(st.alerts, alert))],
              result |-> Some(alert),
              invoked |-> cbs]

\* the AlertManager's fields as one value
AmState == [alert_counter |-> alert_counter,
            last_alert_time |-> last_alert_time,
            alerts |-> alerts]

\* check_and_alert run to completion on the state st at clock current_time:
\* the state it leaves, what it returns, and the callbacks it invoked
check_and_alert_fn(st, camera_id, threat_type, confidence, current_time, cbs) ==
    LET last_time == Get(st.last_alert_time, camera_id, 0) IN
    IF InCooldown(current_time, last_time)
    THEN [st |-> st, result |-> None, invoked |-> <<>>]
    ELSE LET counter == st.alert_counter + 1
             alert == Alert(counter, camera_id, CameraName(camera_id),
                            threat_type, confidence, current_time)
         IN  [st |-> [alert_counter |-> counter,
                      last_alert_time |->
                          Put(st.last_alert_time, camera_id, current_time),
                      alerts |-> Trim(Append(st.alerts, alert))],
              result |-> Some(alert),
              invoked |-> cbs]

\* "return [a.to_dict() for a in reversed(self.alerts[-count:])]"
get_recent_alerts_fn(as, count) ==
    LET recent == Reversed(PySliceFrom(as, 0 - count)) IN
    [i \in 1..Len(recent) |-> to_dict(recent[i])]

\* the index of the first alert of as with the identifier alert_id, or 0
FindAlert(as, alert_id) ==
    IF \E i \in 1..Len(as) : as[i].id = alert_id
    THEN CHOOSE i \in 1..Len(as) :
            /\ as[i].id = alert_id
            /\ \A j \in 1..(i - 1) : as[j].id # alert_id
    ELSE 0

\* an acknowledgement that never compares identifiers: every alert is marked
acknowledge_all_fn(as, alert_id) ==
    [alerts |-> [i \in 1..Len(as) |-> [as[i] EXCEPT !.acknowledged = TRUE]],
     found |-> TRUE]

\* an acknowledgement that flips the flag instead of setting it
acknowledge_toggle_fn(as, alert_id) ==
    LET i == FindAlert(as, alert_id) IN
    IF i = 0
    THEN [alerts |-> as, found |-> FALSE]
    ELSE [alerts |-> [as EXCEPT ![i].acknowledged = ~as[i].acknowledged],
          found |-> TRUE]

\* acknowledge_alert: the first alert with the identifier is marked
acknowledge_alert_fn(as, alert_id) ==
    LET i == FindAlert(as, alert_id) IN
    IF i = 0
    THEN [alerts |-> as, found |-> FALSE]
    ELSE [alerts |-> [as EXCEPT ![i].acknowledged = TRUE], found |-> TRUE]

\* the locals of a thread that is not in a call
NoLocals == [camera_id |-> "", threat_type |-> "", confidence |-> 0,
             current_time |-> 0, counter |-> 0, alert |-> None,
             tail |-> <<>>]

----------------------------------------------------------------------------
(* Actions: the clock, and the AlertManager's operations called in turn *)

Tick ==
    /\ \E d \in TickSteps :
          /\ now + d <= StartTime + MaxElapsed
          /\ now' = now + d
    /\ UNCHANGED <<stageVars, amVars, histVars, thrVars, camVars>>

\* one entry of the call history
CallRecord(camera_id, threat_type, confidence, time, r) ==
    [camera_id |-> camera_id, threat_type |-> threat_type,
     confidence |-> confidence, time |-> time, result |-> r.result]

\* one call made before the start, on the first camera
WarmStep(w, time) ==
    LET r == check_and_alert_fn(w.st, "cam1", "knife", 80, time, <<>>) IN
    [st |-> r.st, accepted |-> w.accepted \o r.result]

CheckAndAlert ==
    /\ Len(calls) + nAck < MaxOps
    /\ \E camera_id \in Cameras, threat_type \in ThreatTypes,
          confidence \in Confidences :
          LET r == check_and_alert_fn(AmState, camera_id, threat_type,
                                      confidence, now, callbacks)
          IN  \E raised \in SUBSET (1..Len(r.invoked)) :
                /\ alert_counter' = r.st.alert_counter
                /\ last_alert_time' = r.st.last_alert_time
                /\ alerts' = r.st.alerts
                /\ calls' = Append(calls,
                                   CallRecord(camera_id, threat_type,
                                              confidence, now, r))
                /\ accepted' = accepted \o r.result
                /\ ret' = [op |-> "check_and_alert", arg |-> camera_id,
                           value |-> r.result,
                           invoked |-> run_callbacks_fn(r.invoked, raised),
                           raised |-> raised]
    /\ UNCHANGED <<stageVars, camVars, now, callbacks, nAck, thrVars>>

GetRecentAlerts ==
    /\ \E count \in Counts :
          ret' = [op |-> "get_recent_alerts", arg |-> count,
                  value |-> get_recent_alerts_fn(alerts, count),
                  invoked |-> <<>>, raised |-> {}]
    /\ UNCHANGED <<stageVars, camVars, now, amVars, calls, accepted, nAck, thrVars>>

AcknowledgeAlert ==
    /\ Len(calls) + nAck < MaxOps
    /\ \E n \in AckNumbers :
          LET r == acknowledge_alert_fn(alerts, AlertId(n)) IN
          /\ alerts' = r.alerts
          /\ ret' = [op |-> "acknowledge_alert", arg |-> AlertId(n),
                     value |-> r.found, invoked |-> <<>>, raised |-> {}]
    /\ nAck' = nAck + 1
    /\ UNCHANGED <<stageVars, camVars, now, alert_counter, last_alert_time, callbacks,
                   calls, accepted, thrVars>>

\* register_callback: "self.callbacks.append(callback)"
RegisterCallback ==
    /\ Len(callbacks) < MaxCallbacks
    /\ \E callback \in Observers : callbacks' = Append(callbacks, callback)
    /\ UNCHANGED <<stageVars, camVars, now, alert_counter, last_alert_time, alerts,
                   histVars, thrVars>>

\* the AlertManager after __init__
EmptyAm == [alert_counter |-> 0, last_alert_time |-> <<>>, alerts |-> <<>>]

\* the time of the k-th of n calls made before the start: each is more than a
\* cooldown after the one before, and the last is more than a cooldown old
WarmTime(k, n) == StartTime - (n - k + 1) * (cooldown_seconds + 1)

\* the alert the k-th of n calls made before the start creates
WarmAlert(k, n) ==
    Alert(k, "cam1", CameraName("cam1"), "knife", 80, WarmTime(k, n))

\* the AlertManager and its history after the first k of n calls made before
\* the start
WarmUp(k, n) ==
    [st |-> [alert_counter |-> k,
             last_alert_time |->
                 IF k = 0 THEN <<>> ELSE [c \in {"cam1"} |-> WarmTime(k, n)],
             alerts |-> [i \in 1..k |-> WarmAlert(i, n)]],
     accepted |-> [i \in 1..k |-> WarmAlert(i, n)]]

\* WarmUp is what check_and_alert computes, call after call, from __init__
WarmUpIsRun(n) ==
    /\ WarmUp(0, n).st = EmptyAm
    /\ \A k \in 1..n :
          WarmUp(k, n) = WarmStep(WarmUp(k - 1, n), WarmTime(k, n))

\* the state after construction (AlertManager.__init__, app.py registers
\* on_alert), or that state after the n calls of WarmUp
InitAfter(n) ==
    /\ now = StartTime
    /\ WarmUpIsRun(n)
    /\ alert_counter = WarmUp(n, n).st.alert_counter
    /\ last_alert_time = WarmUp(n, n).st.last_alert_time
    /\ alerts = WarmUp(n, n).st.alerts
    /\ accepted = WarmUp(n, n).accepted
    /\ calls = <<>>
    /\ callbacks = <<"on_alert">>
    /\ ret = [op |-> "none", arg |-> 0, value |-> None, invoked |-> <<>>,
              raised |-> {}]
    /\ nAck = 0
    /\ pc = [w \in Workers |-> "idle"]
    /\ loc = [w \in Workers |-> NoLocals]

\* the pixels of frame number n
Pixels(n) == [i \in 1..FrameLen |-> n]

\* the locals of a capture thread when _capture_loop begins
\* (failures and fresh are history: the failed attempts in a row, and
\* whether the thread has written no frame since its last successful connect)
NoCapLocals == [reconnect_delay |-> 1, sleep_left |-> 0, frame |-> 0,
                failures |-> 0, fresh |-> FALSE]

\* CameraStream.__init__ for the source u
CamInit(u) ==
    /\ url = u
    /\ running = FALSE
    /\ connected = FALSE
    /\ use_test_pattern = FALSE
    /\ cap = "none"
    /\ frame = 0
    /\ bufs = <<>>
    /\ lock = "free"
    /\ thread = "none"
    /\ last_frame_time = 0
    /\ fps = <<0, 1>>
    /\ produced = 0
    /\ drops = 0
    /\ attempts = 0
    /\ cpc = [t \in CapThreads |-> "unstarted"]
    /\ cloc = [t \in CapThreads |-> NoCapLocals]
    /\ rpc = "idle"
    /\ rloc = [src |-> 0, copy |-> <<>>]
    /\ got = [op |-> "none", value |-> None, written |-> 0]
    /\ written = 0
    /\ spc = "idle"
    /\ join_left = 0
    /\ stopTime = 0
    /\ stoppedAsleep = {}
    /\ stops = 0

\* config.CAMERAS in demo mode: one camera, the webcam
\* the locals of process_camera at the top of its loop
NoStageLocals == [frame |-> None, threats |-> <<>>, late |-> FALSE,
                  failed |-> FALSE]

\* process_camera before its first iteration
StageInit ==
    /\ dpc = "loop"
    /\ dloc = NoStageLocals
    /\ events = <<>>
    /\ detects = 0

Init == InitAfter(0) /\ CamInit("webcam") /\ StageInit

\* a history WarmShort alerts short of full
InitWarm ==
    InitAfter(HistoryLimit - WarmShort) /\ CamInit("webcam") /\ StageInit

\* a camera of any kind
InitCamera == InitAfter(0) /\ StageInit /\ \E u \in Urls : CamInit(u)

Next == Tick \/ CheckAndAlert \/ GetRecentAlerts \/ AcknowledgeAlert

Spec == Init /\ [][Next]_vars

SpecRetention == InitWarm /\ [][Next]_vars

\* the operations with callbacks registered along the way
NextObservers == Next \/ RegisterCallback

SpecObservers == Init /\ [][NextObservers]_vars

----------------------------------------------------------------------------
(* check_and_alert called from several threads: a thread may be preempted   *)
(* between any two reads or writes of the AlertManager's fields, which no   *)
(* lock protects.                                                           *)

\* the camera of the process_camera thread w
WorkerCamera(w) == IF w = "w1" THEN "cam1" ELSE "cam2"

\* the calls entered and not yet returned
InFlight == Cardinality({w \in Workers : pc[w] # "idle"})

Goto(w, label) == pc' = [pc EXCEPT ![w] = label]

\* the call returns r: the thread's locals die
Return(w, r) ==
    /\ calls' = Append(calls,
                       CallRecord(loc[w].camera_id, loc[w].threat_type,
                                  loc[w].confidence, loc[w].current_time, r))
    /\ Goto(w, "idle")
    /\ loc' = [loc EXCEPT ![w] = NoLocals]

\* the call and "current_time = time.time()"
Enter(w, camera_id) ==
    /\ pc[w] = "idle"
    /\ Len(calls) + InFlight < MaxThreadCalls
    /\ \E threat_type \in ThreatTypes, confidence \in Confidences :
          loc' = [loc EXCEPT ![w] =
                    [NoLocals EXCEPT !.camera_id = camera_id,
                                     !.threat_type = threat_type,
                                     !.confidence = confidence,
                                     !.current_time = now]]
    /\ Goto(w, "cooldown")
    /\ UNCHANGED <<stageVars, camVars, now, amVars, histVars>>

\* process_camera(camera_id) calls for its own camera
EnterOwn(w) == Enter(w, WorkerCamera(w))

\* any thread may call for any camera
EnterAny(w) == \E camera_id \in Cameras : Enter(w, camera_id)

\* "last_time = self.last_alert_time.get(camera_id, 0)" and the cooldown test
CheckCooldown(w) ==
    /\ pc[w] = "cooldown"
    /\ IF InCooldown(loc[w].current_time,
                     Get(last_alert_time, loc[w].camera_id, 0))
       THEN /\ Return(w, [result |-> None])
            /\ UNCHANGED <<stageVars, camVars, now, amVars, accepted, ret, nAck>>
       ELSE /\ Goto(w, "load_counter")
            /\ UNCHANGED <<stageVars, camVars, now, amVars, histVars, loc>>

\* "self.alert_counter += 1": the read
LoadCounter(w) ==
    /\ pc[w] = "load_counter"
    /\ loc' = [loc EXCEPT ![w].counter = alert_counter]
    /\ Goto(w, "store_counter")
    /\ UNCHANGED <<stageVars, camVars, now, amVars, histVars>>

\* "self.alert_counter += 1": the write
StoreCounter(w) ==
    /\ pc[w] = "store_counter"
    /\ alert_counter' = loc[w].counter + 1
    /\ Goto(w, "create")
    /\ UNCHANGED <<stageVars, camVars, now, last_alert_time, alerts, callbacks, histVars, loc>>

\* "alert = Alert(id=f"alert_{self.alert_counter}", ...)": the counter is
\* read again
CreateAlert(w) ==
    /\ pc[w] = "create"
    /\ LET alert == Alert(alert_counter, loc[w].camera_id,
                          CameraName(loc[w].camera_id), loc[w].threat_type,
                          loc[w].confidence, loc[w].current_time)
       IN  /\ loc' = [loc EXCEPT ![w].alert = Some(alert)]
           /\ accepted' = Append(accepted, alert)
    /\ Goto(w, "append")
    /\ UNCHANGED <<stageVars, camVars, now, amVars, calls, ret, nAck>>

\* "self.alerts.append(alert)"
AppendAlert(w) ==
    /\ pc[w] = "append"
    /\ alerts' = Append(alerts, loc[w].alert[1])
    /\ Goto(w, "ledger")
    /\ UNCHANGED <<stageVars, camVars, now, alert_counter, last_alert_time, callbacks,
                   histVars, loc>>

\* "self.last_alert_time[camera_id] = current_time"
UpdateLedger(w) ==
    /\ pc[w] = "ledger"
    /\ last_alert_time' =
           Put(last_alert_time, loc[w].camera_id, loc[w].current_time)
    /\ Goto(w, "trim")
    /\ UNCHANGED <<stageVars, camVars, now, alert_counter, alerts, callbacks, histVars, loc>>

\* "if len(self.alerts) > 100:" and the slice "self.alerts[-100:]"
TrimLoad(w) ==
    /\ pc[w] = "trim"
    /\ IF Len(alerts) > HistoryLimit
       THEN /\ loc' = [loc EXCEPT ![w].tail = Trim(alerts)]
            /\ Goto(w, "trim_store")
       ELSE /\ Goto(w, "notify")
            /\ UNCHANGED loc
    /\ UNCHANGED <<stageVars, camVars, now, amVars, histVars>>

\* "self.alerts = ...": the slice replaces the list
TrimStore(w) ==
    /\ pc[w] = "trim_store"
    /\ alerts' = loc[w].tail
    /\ Goto(w, "notify")
    /\ loc' = [loc EXCEPT ![w].tail = <<>>]
    /\ UNCHANGED <<stageVars, camVars, now, alert_counter, last_alert_time, callbacks, histVars>>

\* the callbacks, each in its own try/except (one that raises is logged and
\* the loop goes on), and "return alert"
Notify(w) ==
    /\ pc[w] = "notify"
    /\ Return(w, [result |-> loc[w].alert])
    /\ UNCHANGED <<stageVars, camVars, now, amVars, accepted, ret, nAck>>

\* the steps of a call once entered
CallStep(w) ==
    \/ CheckCooldown(w)
    \/ LoadCounter(w)
    \/ StoreCounter(w)
    \/ CreateAlert(w)
    \/ AppendAlert(w)
    \/ UpdateLedger(w)
    \/ TrimLoad(w)
    \/ TrimStore(w)
    \/ Notify(w)

\* one process_camera thread per camera, as app.start_processing starts them
NextThreads ==
    \/ Tick
    \/ \E w \in Workers : EnterOwn(w)
    \/ \E w \in Workers : CallStep(w)

\* threads that call for any camera
NextShared ==
    \/ Tick
    \/ \E w \in Workers : EnterAny(w)
    \/ \E w \in Workers : CallStep(w)

\* the threads start with a history WarmShort alerts short of full
InitThreads == InitWarm

SpecThreads == InitThreads /\ [][NextThreads]_vars

SpecShared == InitThreads /\ [][NextShared]_vars

----------------------------------------------------------------------------
(* CameraStream: the capture thread, the get_frame caller, the stop caller  *)

\* the arrays still referred to: by self.frame, by a capture thread's local
\* "frame" or by the copy in progress
Referenced(f, cl, rl) ==
    ({f, rl.src} \cup {cl[t].frame : t \in CapThreads}) \ {0}

\* memory without the arrays nothing refers to
Collect(b, live) == [id \in DOMAIN b \cap live |-> b[id]]

\* a read that decodes into the array self.frame refers to
ReadTargetInPlace(current, n) == IF current # 0 THEN current ELSE n

\* "ret, frame = self.cap.read()" and _generate_test_frame return a new array
\* for frame n, whatever self.frame refers to
ReadTarget(current, n) == n

\* a delay that doubles without the ceiling
NextDelayUncapped(delay) == delay * 2

\* "reconnect_delay = min(reconnect_delay * 2, max_reconnect_delay)"
NextDelay(delay) ==
    IF delay * 2 < max_reconnect_delay THEN delay * 2
    ELSE max_reconnect_delay

\* the waits in progress, each with the time it still takes: a backoff
\* sleep, a join with its timeout, a source whose next frame is due one
\* unit after the last
Awaited ==
    {cloc[t].sleep_left : t \in {u \in CapThreads :
                              cpc[u] = "backoff" /\ cloc[u].sleep_left > 0}}
    \cup (IF spc = "join" /\ join_left > 0 THEN {join_left} ELSE {})
    \cup (IF \E t \in CapThreads : /\ cpc[t] = "capture"
                                   /\ produced < MaxFrames
                                   /\ now = last_frame_time
          THEN {1} ELSE {})

\* the clock moves on to the end of the shortest wait; the sleeps and the
\* join timeout run down by as much
CamTick ==
    /\ Awaited # {}
    /\ LET d == CHOOSE x \in Awaited : \A y \in Awaited : x <= y IN
       /\ now + d <= StartTime + MaxCamElapsed
       /\ now' = now + d
       /\ cloc' = [t \in CapThreads |->
                     IF cpc[t] = "backoff" /\ cloc[t].sleep_left > 0
                     THEN [cloc[t] EXCEPT !.sleep_left = @ - d]
                     ELSE cloc[t]]
       /\ join_left' = IF spc = "join" /\ join_left > 0
                       THEN join_left - d ELSE join_left
    /\ UNCHANGED <<stageVars, alertVars, camFields, cpc, readerVars, spc, stopTime,
                   stoppedAsleep, stops>>

\* the capture thread start() creates next
FreshThread == IF cpc["t1"] = "unstarted" THEN "t1" ELSE "t2"

\* start(): nothing when running, else a new thread runs _capture_loop
Start ==
    /\ spc = "idle"
    /\ IF running
       THEN UNCHANGED <<running, thread, cpc, cloc, stoppedAsleep>>
       ELSE /\ \E t \in CapThreads : cpc[t] = "unstarted"
            /\ running' = TRUE
            /\ thread' = FreshThread
            /\ cpc' = [cpc EXCEPT ![FreshThread] = "loop"]
            /\ cloc' = [cloc EXCEPT ![FreshThread] = NoCapLocals]
            /\ stoppedAsleep' = {}
    /\ UNCHANGED <<stageVars, now, alertVars, url, connected, use_test_pattern, cap,
                   frame, bufs, lock, last_frame_time, fps, produced, drops, attempts,
                   readerVars, spc, join_left, stopTime, stops>>

\* "while self.running:" and "if not self.connected:"
LoopTop(t) ==
    /\ cpc[t] = "loop"
    /\ cpc' = [cpc EXCEPT ![t] =
                 IF ~running THEN "done"
                 ELSE IF ~connected THEN "connect" ELSE "capture"]
    /\ UNCHANGED <<stageVars, now, alertVars, camFields, cloc, readerVars, stopVars>>

\* what _connect leaves in cap, connected and use_test_pattern, and what it
\* returns, when opening the source ends in outcome: "opened", "closed"
\* (isOpened() is false) or "error" (an exception)
connect_fn(u, old_cap, old_test, outcome) ==
    LET released == IF old_cap = "none" THEN "none" ELSE "released" IN
    IF u = "test"
    THEN [cap |-> released, connected |-> TRUE, test |-> TRUE, ok |-> TRUE]
    ELSE IF outcome = "error"
    THEN [cap |-> released, connected |-> FALSE, test |-> old_test,
          ok |-> FALSE]
    ELSE IF outcome = "opened"
    THEN [cap |-> "open", connected |-> TRUE, test |-> old_test, ok |-> TRUE]
    ELSE IF u = "webcam"
    THEN [cap |-> "closed", connected |-> TRUE, test |-> TRUE, ok |-> TRUE]
    ELSE [cap |-> "closed", connected |-> FALSE, test |-> old_test,
          ok |-> FALSE]

\* "if self._connect(): reconnect_delay = 1", else the backoff sleep begins
ConnectWith(t, outcomes) ==
    /\ cpc[t] = "connect"
    /\ attempts < MaxAttempts
    /\ attempts' = attempts + 1
    /\ \E outcome \in outcomes :
          LET r == connect_fn(url, cap, use_test_pattern, outcome) IN
          /\ cap' = r.cap
          /\ connected' = r.connected
          /\ use_test_pattern' = r.test
          /\ IF r.ok
             THEN /\ cloc' = [cloc EXCEPT ![t].reconnect_delay = 1,
                                          ![t].failures = 0,
                                          ![t].fresh = TRUE]
                  /\ cpc' = [cpc EXCEPT ![t] = "capture"]
             ELSE /\ cloc' = [cloc EXCEPT ![t].sleep_left =
                                               cloc[t].reconnect_delay,
                                          ![t].failures = @ + 1]
                  /\ cpc' = [cpc EXCEPT ![t] = "backoff"]
    /\ UNCHANGED <<stageVars, now, alertVars, url, running, frame, bufs, lock, thread,
                   last_frame_time, fps, produced, drops, readerVars,
                   stopVars>>

\* the source may open, stay closed or raise
Outcomes == {"opened", "closed", "error"}

Connect(t) == ConnectWith(t, Outcomes)

\* "time.sleep(reconnect_delay)" is over: the delay doubles, "continue"
Backoff(t) ==
    /\ cpc[t] = "backoff"
    /\ cloc[t].sleep_left = 0
    /\ cloc' = [cloc EXCEPT ![t].reconnect_delay =
                               NextDelay(cloc[t].reconnect_delay)]
    /\ cpc' = [cpc EXCEPT ![t] = "loop"]
    /\ UNCHANGED <<stageVars, now, alertVars, camFields, readerVars, stopVars>>

\* a frame arrives (at most one per unit of time): cap.read() returns it, or
\* _generate_test_frame draws it
ReadFrame(t) ==
    /\ cpc[t] = "capture"
    /\ use_test_pattern \/ cap = "open"
    /\ now > last_frame_time
    /\ produced < MaxFrames
    /\ LET n == produced + 1
           id == ReadTarget(frame, n)
       IN  /\ produced' = n
           /\ bufs' = [k \in DOMAIN bufs \cup {id} |->
                          IF k = id THEN Pixels(n) ELSE bufs[k]]
           /\ cloc' = [cloc EXCEPT ![t].frame = id]
    /\ cpc' = [cpc EXCEPT ![t] = "lock"]
    /\ UNCHANGED <<stageVars, now, alertVars, url, running, connected, use_test_pattern,
                   cap, frame, lock, thread, last_frame_time, fps, drops, attempts,
                   readerVars, stopVars>>

\* cap.read() returns no frame or raises: "self.connected = False" and
\* "time.sleep(0.1)"
ReadFails(t) ==
    /\ cpc[t] = "capture"
    /\ ~use_test_pattern
    /\ cap # "open" \/ drops < MaxDrops
    /\ drops' = IF cap = "open" THEN drops + 1 ELSE drops
    /\ connected' = FALSE
    /\ cpc' = [cpc EXCEPT ![t] = "loop"]
    /\ UNCHANGED <<stageVars, now, alertVars, url, running, use_test_pattern, cap, frame,
                   bufs, lock, thread, last_frame_time, fps, produced, attempts,
                   cloc,
                   readerVars, stopVars>>

\* "with self.lock:" in _capture_loop
LockForWrite(t) ==
    /\ cpc[t] = "lock"
    /\ lock = "free"
    /\ lock' = t
    /\ cpc' = [cpc EXCEPT ![t] = "write"]
    /\ UNCHANGED <<stageVars, now, alertVars, url, running, connected, use_test_pattern,
                   cap, frame, bufs, thread, last_frame_time, fps, produced, drops, attempts,
                   cloc, readerVars, stopVars>>

\* "self.frame = frame", the fps from the time since the last frame, and
\* "self.last_frame_time = current_time"; a zero time difference raises
\* ZeroDivisionError, caught by "except Exception"
WriteFrame(t) ==
    /\ cpc[t] = "write"
    /\ frame' = cloc[t].frame
    /\ written' = bufs[cloc[t].frame][FrameLen]
    /\ cloc' = [cloc EXCEPT ![t].frame = 0, ![t].fresh = FALSE]
    /\ bufs' = Collect(bufs, Referenced(frame', cloc', rloc))
    /\ lock' = "free"
    /\ cpc' = [cpc EXCEPT ![t] = "loop"]
    /\ IF last_frame_time > 0 /\ now = last_frame_time
       THEN /\ connected' = FALSE
            /\ UNCHANGED <<fps, last_frame_time>>
       ELSE /\ fps' = IF last_frame_time > 0
                      THEN <<1, now - last_frame_time>> ELSE fps
            /\ last_frame_time' = now
            /\ UNCHANGED connected
    /\ UNCHANGED <<stageVars, now, alertVars, url, running, use_test_pattern, cap,
                   thread, produced, drops, attempts, rpc, rloc, got, stopVars>>

\* the steps of one capture thread
CaptureStep(t) ==
    \/ LoopTop(t)
    \/ Connect(t)
    \/ Backoff(t)
    \/ ReadFrame(t)
    \/ ReadFails(t)
    \/ LockForWrite(t)
    \/ WriteFrame(t)

\* get_frame: "with self.lock:"
GetFrameLock ==
    /\ rpc = "idle"
    /\ lock = "free"
    /\ lock' = "reader"
    /\ rpc' = "locked"
    /\ UNCHANGED <<stageVars, now, alertVars, url, running, connected, use_test_pattern,
                   cap, frame, bufs, thread, last_frame_time, fps, produced, drops, attempts,
                   capVars, rloc, got, written, stopVars>>

\* get_frame: "if self.frame is not None:", else "return None"
GetFrameLook ==
    /\ rpc = "locked"
    /\ IF frame = 0
       THEN /\ got' = [op |-> "get_frame", value |-> None,
                       written |-> written]
            /\ lock' = "free"
            /\ rpc' = "idle"
            /\ UNCHANGED rloc
       ELSE /\ rloc' = [src |-> frame, copy |-> <<>>]
            /\ rpc' = "copy"
            /\ UNCHANGED <<got, lock>>
    /\ UNCHANGED <<stageVars, now, alertVars, url, running, connected, use_test_pattern,
                   cap, frame, bufs, thread, last_frame_time, fps, produced, drops, attempts,
                   capVars, written, stopVars>>

\* get_frame: "self.frame.copy()", one pixel
GetFrameCopy ==
    /\ rpc = "copy"
    /\ Len(rloc.copy) < FrameLen
    /\ rloc' = [rloc EXCEPT !.copy =
                   Append(@, bufs[rloc.src][Len(rloc.copy) + 1])]
    /\ UNCHANGED <<stageVars, now, alertVars, camFields, capVars, rpc, got, written,
                   stopVars>>

\* get_frame: "return self.frame.copy()", leaving the with block
GetFrameReturn ==
    /\ rpc = "copy"
    /\ Len(rloc.copy) = FrameLen
    /\ got' = [op |-> "get_frame", value |-> Some(rloc.copy),
               written |-> written]
    /\ rloc' = [src |-> 0, copy |-> <<>>]
    /\ bufs' = Collect(bufs, Referenced(frame, cloc, rloc'))
    /\ lock' = "free"
    /\ rpc' = "idle"
    /\ UNCHANGED <<stageVars, now, alertVars, url, running, connected, use_test_pattern,
                   cap, frame, thread, last_frame_time, fps, produced, drops, attempts,
                   capVars, written, stopVars>>

GetFrame == GetFrameLock \/ GetFrameLook \/ GetFrameCopy \/ GetFrameReturn

\* stop(): "self.running = False", then the join if there is a thread
StopBegin ==
    /\ spc = "idle"
    /\ stops < MaxStops
    /\ stops' = stops + 1
    /\ running' = FALSE
    /\ stopTime' = now
    /\ stoppedAsleep' = {t \in CapThreads :
                           cpc[t] = "backoff" /\ cloc[t].sleep_left > 0}
    /\ IF thread # "none"
       THEN spc' = "join" /\ join_left' = JoinTimeout
       ELSE spc' = "release" /\ UNCHANGED join_left
    /\ UNCHANGED <<stageVars, now, alertVars, url, connected, use_test_pattern, cap,
                   frame, bufs, lock, thread, last_frame_time, fps, produced, drops, attempts,
                   capVars, readerVars>>

\* stop(): "self.thread.join(timeout=2)" returns: the thread has ended, or
\* the timeout has run out
StopJoin ==
    /\ spc = "join"
    /\ cpc[thread] = "done" \/ join_left = 0
    /\ spc' = "release"
    /\ UNCHANGED <<stageVars, now, alertVars, camFields, capVars, readerVars, join_left,
                   stopTime, stoppedAsleep, stops>>

\* stop(): "if self.cap: self.cap.release()", and stop returns
StopRelease ==
    /\ spc = "release"
    /\ cap' = IF cap = "none" THEN "none" ELSE "released"
    /\ spc' = "idle"
    /\ UNCHANGED <<stageVars, now, alertVars, url, running, connected, use_test_pattern,
                   frame, bufs, lock, thread, last_frame_time, fps, produced, drops, attempts,
                   capVars, readerVars, join_left, stopTime, stoppedAsleep, stops>>

Stop == StopBegin \/ StopJoin \/ StopRelease

\* the stream started and stopped, with nobody reading frames
NextLifecycle ==
    \/ CamTick
    \/ Start
    \/ \E t \in CapThreads : CaptureStep(t)
    \/ Stop

SpecLifecycle == InitCamera /\ [][NextLifecycle]_vars

\* the stream started once and read by a get_frame caller
NextFrames ==
    \/ CamTick
    \/ Start
    \/ \E t \in CapThreads : CaptureStep(t)
    \/ GetFrame

SpecFrames == InitCamera /\ [][NextFrames]_vars

\* _connect for a target that cannot be reached: the source never opens
ConnectUnreachable(t) == ConnectWith(t, Outcomes \ {"opened"})

\* a camera or a webcam (not the test pattern) that is never reachable
InitUnreachable ==
    InitAfter(0) /\ StageInit /\ \E u \in Urls \ {"test"} : CamInit(u)

\* the stream of an unreachable target, started and read by get_frame
NextUnreachable ==
    \/ CamTick
    \/ Start
    \/ \E t \in CapThreads :
          \/ LoopTop(t)
          \/ ConnectUnreachable(t)
          \/ Backoff(t)
          \/ ReadFrame(t)
          \/ LockForWrite(t)
          \/ WriteFrame(t)
    \/ GetFrame

SpecUnreachable == InitUnreachable /\ [][NextUnreachable]_vars

----------------------------------------------------------------------------
(* process_camera (app.py): the detection loop of one camera *)

\* the camera process_camera runs for
StageCamera == "cam1"

\* stop() has been called and start() has not been called since
StopRequested == stops > 0 /\ ~running

\* 'socketio.emit("new_alert", alert.to_dict())'
NewAlertEvent(alert) == [name |-> "new_alert", data |-> to_dict(alert)]

\* 'socketio.emit(f"frame_{camera_id}", {...})'
FrameEvent(camera_id, pixels) ==
    [name |-> "frame", data |-> [camera_id |-> camera_id, frame |-> pixels]]

\* on_alert: what the callbacks called emit, those at the positions in
\* fails raising instead
CallbackEvents(called, fails, alert) ==
    LET marks == [i \in 1..Len(called) |->
                     [callback |-> called[i], ok |-> i \notin fails]]
        emitting == SelectSeq(marks,
                              LAMBDA m : m.callback = "on_alert" /\ m.ok)
    IN  [i \in 1..Len(emitting) |-> NewAlertEvent(alert)]

\* "while True:" and the call of camera.get_frame()
StageLoop ==
    /\ dpc = "loop"
    /\ detects < MaxDetects
    /\ dpc' = "poll"
    /\ dloc' = [NoStageLocals EXCEPT !.late = StopRequested]
    /\ got' = [op |-> "none", value |-> None, written |-> 0]
    /\ UNCHANGED <<now, alertVars, camFields, capVars, rpc, rloc, written,
                   stopVars, events, detects>>

\* camera.get_frame() runs
StagePoll ==
    /\ dpc = "poll"
    /\ got.op = "none"
    /\ GetFrame

\* "frame = camera.get_frame()": no frame, "time.sleep(0.1); continue"
StageTake ==
    /\ dpc = "poll"
    /\ got.op = "get_frame"
    /\ IF got.value = None
       THEN dpc' = "loop" /\ UNCHANGED dloc
       ELSE dpc' = "detect" /\ dloc' = [dloc EXCEPT !.frame = got.value]
    /\ UNCHANGED <<now, alertVars, camVars, events, detects>>

\* "annotated_frame, detections = detector.detect(frame)" and
\* "threats = detector.get_threats(detections)"; detect may raise, and
\* nothing in process_camera catches it
StageDetect ==
    /\ dpc = "detect"
    /\ detects' = detects + 1
    /\ \/ /\ dpc' = "dead"
          /\ dloc' = [dloc EXCEPT !.failed = TRUE]
       \/ \E threats \in DetectResults :
             /\ dpc' = "threats"
             /\ dloc' = [dloc EXCEPT !.threats = threats]
    /\ UNCHANGED <<now, alertVars, camVars, events>>

\* "for threat in threats: alert = alert_manager.check_and_alert(...)" and
\* 'if alert: socketio.emit("new_alert", alert.to_dict())'
StageSubmit ==
    /\ dpc = "threats"
    /\ dloc.threats # <<>>
    /\ \E confidence \in Confidences :
          LET r == check_and_alert_fn(AmState, StageCamera,
                                      Head(dloc.threats), confidence, now,
                                      callbacks)
          IN  \E raised \in SUBSET (1..Len(r.invoked)) :
                LET called == run_callbacks_fn(r.invoked, raised) IN
                /\ alert_counter' = r.st.alert_counter
                /\ last_alert_time' = r.st.last_alert_time
                /\ alerts' = r.st.alerts
                /\ calls' = Append(calls,
                                   CallRecord(StageCamera, Head(dloc.threats),
                                              confidence, now, r))
                /\ accepted' = accepted \o r.result
                /\ ret' = [op |-> "check_and_alert", arg |-> StageCamera,
                           value |-> r.result, invoked |-> called,
                           raised |-> raised]
                /\ events' =
                      IF r.result = None THEN events
                      ELSE events
                           \o CallbackEvents(called, raised, r.result[1])
                           \o <<NewAlertEvent(r.result[1])>>
    /\ dloc' = [dloc EXCEPT !.threats = Tail(@)]
    /\ UNCHANGED <<now, callbacks, nAck, thrVars, camVars, dpc, detects>>

\* the frame is encoded and emitted, then "time.sleep(0.066)"
StagePublish ==
    /\ dpc = "threats"
    /\ dloc.threats = <<>>
    /\ events' = Append(events, FrameEvent(StageCamera, dloc.frame[1]))
    /\ dpc' = "loop"
    /\ UNCHANGED <<now, alertVars, camVars, dloc, detects>>

\* the steps of process_camera
StageStep ==
    \/ StageLoop
    \/ StagePoll
    \/ StageTake
    \/ StageDetect
    \/ StageSubmit
    \/ StagePublish

\* a camera that draws the test pattern
InitStage == InitAfter(0) /\ StageInit /\ CamInit("test")

\* the camera started and stopped while process_camera runs
NextStage ==
    \/ CamTick
    \/ Start
    \/ \E t \in CapThreads :
          \/ LoopTop(t)
          \/ Connect(t)
          \/ ReadFrame(t)
          \/ LockForWrite(t)
          \/ WriteFrame(t)
    \/ Stop
    \/ StageStep

SpecStage == InitStage /\ [][NextStage]_vars

----------------------------------------------------------------------------
(* Properties of the AlertManager called by one caller at a time *)

Min(a, b) == IF a < b THEN a ELSE b

\* the calls made for one camera, in order
CamCalls(c) == SelectSeq(calls, LAMBDA r : r.camera_id = c)

IsAccepted(r) == r.result # None

\* the i-th call of s starts a window: the camera has no accepted alert yet,
\* or its accepted alerts are at least a cooldown old
WindowStart(s, i) ==
    \A k \in 1..(i - 1) :
        IsAccepted(s[k]) => s[i].time - s[k].time >= cooldown_seconds

\* C1: of the calls for one camera that lie within a window shorter than the
\* cooldown, the window starting with the camera out of cooldown, the first
\* call returns an alert (its own: same time, same label) and every other
\* call returns None, whatever the threat labels.
C1_OneAlertPerWindow ==
    \A c \in Cameras :
        LET s == CamCalls(c) IN
        \A i \in 1..Len(s) : \A j \in i..Len(s) :
            (WindowStart(s, i) /\ s[j].time - s[i].time < cooldown_seconds)
            => /\ IsAccepted(s[i])
               /\ s[i].result[1].timestamp = s[i].time
               /\ s[i].result[1].threat_type = s[i].threat_type
               /\ s[i].result[1].camera_id = c
               /\ \A k \in (i + 1)..j : ~IsAccepted(s[k])

\* three calls for one camera within one window, with different labels: the
\* first accepted, the other two suppressed
C1_Witness ==
    \E c \in Cameras :
        LET s == CamCalls(c) IN
        /\ Len(s) >= 3
        /\ s[3].time - s[1].time < cooldown_seconds
        /\ s[2].time > s[1].time
        /\ s[2].threat_type # s[1].threat_type
        /\ IsAccepted(s[1]) /\ ~IsAccepted(s[2]) /\ ~IsAccepted(s[3])

\* C4: when every call for a camera comes strictly more than the cooldown
\* after the call before it, every call returns an alert and the camera's
\* ledger entry is the time of the latest call.
C4_SpacedCallsAccepted ==
    \A c \in Cameras :
        LET s == CamCalls(c) IN
        (\A i \in 2..Len(s) : s[i].time - s[i - 1].time > cooldown_seconds)
        => /\ \A i \in 1..Len(s) : IsAccepted(s[i])
           /\ Len(s) > 0 => /\ c \in DOMAIN last_alert_time
                             /\ last_alert_time[c] = s[Len(s)].time

\* two calls for one camera more than a cooldown apart, both accepted
C4_Witness ==
    \E c \in Cameras :
        LET s == CamCalls(c) IN
        /\ Len(s) >= 2
        /\ \A i \in 2..Len(s) : s[i].time - s[i - 1].time > cooldown_seconds
        /\ IsAccepted(s[1]) /\ IsAccepted(s[2])
        /\ last_alert_time[c] = s[Len(s)].time

\* an alert without its acknowledged flag
Unacknowledged(a) == [a EXCEPT !.acknowledged = FALSE]

\* the last n elements of s
LastN(s, n) == SubSeq(s, Len(s) - n + 1, Len(s))

\* the identifiers of the alerts dropped from the history
EvictedIds ==
    {accepted[i].id : i \in 1..(Len(accepted) - Len(alerts))}

\* C5: the history holds at most 100 alerts, the most recently accepted ones
\* in acceptance order; once more than 100 alerts were accepted,
\* get_recent_alerts(100) returns the 100 most recent, newest first, and an
\* evicted alert is returned by no query and found by no acknowledgement.
C5_BoundedHistory ==
    /\ Len(alerts) = Min(Len(accepted), HistoryLimit)
    /\ [i \in 1..Len(alerts) |-> Unacknowledged(alerts[i])]
         = LastN(accepted, Len(alerts))
    /\ Len(accepted) > HistoryLimit =>
         LET recent == get_recent_alerts_fn(alerts, HistoryLimit) IN
         /\ Len(recent) = HistoryLimit
         /\ \A i \in 1..HistoryLimit :
               recent[i] = to_dict(alerts[HistoryLimit + 1 - i])
    /\ \A count \in Counts :
         LET recent == get_recent_alerts_fn(alerts, count) IN
         \A i \in 1..Len(recent) : recent[i].id \notin EvictedIds
    /\ \A id \in EvictedIds : ~acknowledge_alert_fn(alerts, id).found
    /\ ret.op = "get_recent_alerts" =>
         \A i \in 1..Len(ret.value) : ret.value[i].id \notin EvictedIds
    /\ (ret.op = "acknowledge_alert" /\ ret.arg \in EvictedIds) => ~ret.value

\* 101 alerts accepted, the first one evicted, and the last 100 queried
C5_Witness ==
    /\ Len(accepted) > HistoryLimit
    /\ Len(alerts) = HistoryLimit
    /\ ret.op = "get_recent_alerts"
    /\ ret.arg = HistoryLimit
    /\ Len(ret.value) = HistoryLimit
    /\ ret.value[1].id = accepted[Len(accepted)].id
    /\ AlertId(1) \in EvictedIds

\* C6: get_recent_alerts(count) returns min(count, len(history)) alerts, the
\* most recently accepted ones, newest first, for every count >= 0.
C6_RecentCount ==
    ret.op = "get_recent_alerts" =>
        LET n == Min(ret.arg, Len(alerts)) IN
        /\ Len(ret.value) = n
        /\ \A i \in 1..n : ret.value[i] = to_dict(alerts[Len(alerts) + 1 - i])

\* the step is a call acknowledge_alert(ret'.arg)
IsAcknowledgeStep == nAck' = nAck + 1

\* the identifier belongs to an alert of the history
Known(id) == \E i \in 1..Len(alerts) : alerts[i].id = id

\* C7: acknowledge_alert with an identifier of no alert in the history returns
\* False and leaves the counter, the ledger, the history and every flag as
\* they were.
C7_UnknownIdIgnored ==
    [][(IsAcknowledgeStep /\ ~Known(ret'.arg))
        => (ret'.value = FALSE /\ UNCHANGED amVars)]_vars

\* an acknowledgement of the evicted first alert was refused
C7_Witness ==
    /\ ret.op = "acknowledge_alert"
    /\ ret.value = FALSE
    /\ ret.arg = AlertId(1)
    /\ ret.arg \in EvictedIds
    /\ ~Known(ret.arg)

\* C8: acknowledge_alert with the identifier of an alert in the history
\* returns True and sets that alert's flag, changing nothing else; a second
\* call returns True and changes nothing; and no step changes another field
\* of a created alert or clears its flag.
C8_AcknowledgeIdempotent ==
    [][/\ (IsAcknowledgeStep /\ Known(ret'.arg)) =>
            /\ ret'.value = TRUE
            /\ Len(alerts') = Len(alerts)
            /\ \A i \in 1..Len(alerts) :
                  alerts'[i] =
                    IF alerts[i].id = ret'.arg
                    THEN [alerts[i] EXCEPT !.acknowledged = TRUE]
                    ELSE alerts[i]
            /\ UNCHANGED <<alert_counter, last_alert_time, callbacks>>
            /\ acknowledge_alert_fn(alerts', ret'.arg)
                 = [alerts |-> alerts', found |-> TRUE]
       /\ \A i \in 1..Len(alerts) : \A j \in 1..Len(alerts') :
            alerts[i].id = alerts'[j].id =>
                /\ Unacknowledged(alerts'[j]) = Unacknowledged(alerts[i])
                /\ alerts[i].acknowledged => alerts'[j].acknowledged
      ]_vars

\* an alert was acknowledged twice, among other alerts left unacknowledged
C8_Witness ==
    /\ ret.op = "acknowledge_alert"
    /\ ret.value = TRUE
    /\ nAck = 2
    /\ Len(alerts) >= 1
    /\ Cardinality({i \in 1..Len(alerts) : alerts[i].acknowledged}) = 1

----------------------------------------------------------------------------
(* Properties of check_and_alert called from several threads *)

\* the n of the identifier "alert_<n>"
IdNumber(a) == a.id[2]

\* C2: when the camera threads call check_and_alert concurrently, every
\* alert created has an identifier no other alert has, the identifiers
\* increase along the history, and every alert returned is in the history
\* unless HistoryLimit later alerts have pushed it out.
C2_DistinctOrderedIds ==
    /\ \A i \in 1..Len(calls) : \A j \in 1..Len(calls) :
          (i # j /\ IsAccepted(calls[i]) /\ IsAccepted(calls[j]))
          => calls[i].result[1].id # calls[j].result[1].id
    /\ \A i \in 1..(Len(alerts) - 1) :
          IdNumber(alerts[i]) < IdNumber(alerts[i + 1])
    /\ \A i \in 1..Len(calls) :
          IsAccepted(calls[i]) =>
             \/ \E k \in 1..Len(alerts) :
                   Unacknowledged(alerts[k]) = calls[i].result[1]
             \/ \E k \in 1..Len(accepted) :
                   /\ accepted[k] = calls[i].result[1]
                   /\ Len(accepted) - k >= HistoryLimit

\* C3: of the concurrent calls for one camera made within one cooldown
\* window, at most one returns an alert.
C3_AtomicCooldown ==
    \A i \in 1..Len(calls) : \A j \in 1..Len(calls) :
        (/\ i < j
         /\ calls[i].camera_id = calls[j].camera_id
         /\ calls[j].time - calls[i].time < cooldown_seconds
         /\ calls[i].time - calls[j].time < cooldown_seconds)
        => ~(IsAccepted(calls[i]) /\ IsAccepted(calls[j]))

----------------------------------------------------------------------------
(* Properties of the CameraStream *)

\* the caller of get_frame holds the lock, or nobody does, or a capture
\* thread holds it for the assignments of its write
NoWaitForFrame ==
    /\ rpc # "idle" => ENABLED GetFrame
    /\ lock \in CapThreads => cpc[lock] = "write" /\ ENABLED WriteFrame(lock)

\* C9: whatever the interleaving of the capture thread's writes with
\* get_frame, get_frame returns None only while no frame was ever written,
\* and otherwise a copy of the whole frame of the last completed write,
\* never a mix of two frames; once it has the lock it never waits for a
\* frame to arrive.
C9_FrameNeverTorn ==
    /\ got.op = "get_frame" =>
          IF got.written = 0
          THEN got.value = None
          ELSE got.value = Some(Pixels(got.written))
    /\ rpc = "copy" =>
          /\ written > 0
          /\ \A i \in 1..Len(rloc.copy) : rloc.copy[i] = Pixels(written)[i]
    /\ NoWaitForFrame

\* get_frame has returned the first frame while the capture thread, with
\* the second frame read, had not yet written it
C9_Witness ==
    /\ got.op = "get_frame"
    /\ got.value = Some(Pixels(1))
    /\ written = 1
    /\ \E t \in CapThreads : cpc[t] = "lock" /\ produced = 2

\* C10: a capture thread that stop() finds in its backoff sleep is no longer
\* asleep once more than one unit of time has passed since the stop,
\* whatever the delay it sleeps for.
C10_StopInterruptsBackoff ==
    \A t \in stoppedAsleep :
        (~running /\ now - stopTime > 1)
        => ~(cpc[t] = "backoff" /\ cloc[t].sleep_left > 0)

\* stop() has returned and start() has not been called since
StopReturned == stops > 0 /\ spc = "idle" /\ ~running

\* C11: once stop() has returned (and until start() is called again) no
\* capture thread is alive, whatever it was doing when stop() was called,
\* and the stream holds no open connection.
C11_StopEndsCapture ==
    StopReturned =>
        /\ \A t \in CapThreads : cpc[t] \in {"unstarted", "done"}
        /\ cap # "open"

\* C16: once stop() has returned the stream reports connected = false, and
\* it reports connected = true only while it has an open connection (or
\* draws the test pattern).
C16_StopDisconnects ==
    /\ StopReturned => ~connected
    /\ connected => (cap = "open" \/ use_test_pattern)

\* the sleep of the k-th failed attempt in a row
BackoffOf(k) ==
    IF 2 ^ (k - 1) < max_reconnect_delay THEN 2 ^ (k - 1)
    ELSE max_reconnect_delay

\* the delay is within 1..max_reconnect_delay; it is 1 after a successful
\* connect and follows the failures in a row otherwise
DelayOK(t) ==
    /\ cloc[t].reconnect_delay >= 1
    /\ cloc[t].reconnect_delay <= max_reconnect_delay
    /\ IF cpc[t] = "backoff"
       THEN /\ cloc[t].failures >= 1
            /\ cloc[t].reconnect_delay = BackoffOf(cloc[t].failures)
            /\ cloc[t].sleep_left <= cloc[t].reconnect_delay
       ELSE cloc[t].reconnect_delay = BackoffOf(cloc[t].failures + 1)
    /\ cpc[t] \in {"capture", "lock", "write"} => cloc[t].failures = 0

\* a step in which thread t fails to connect and begins its sleep
SleepBegins(t) == cpc[t] = "connect" /\ cpc'[t] = "backoff"

\* C12: the reconnect delay is always within 1..30; the k-th failed attempt
\* in a row sleeps min(2^(k-1), 30) units; a successful connect resets the
\* delay to 1, so the first failed attempt after a read failure sleeps 1.
C12_BackoffDelay ==
    /\ [](\A t \in CapThreads : DelayOK(t))
    /\ [][\A t \in CapThreads :
            SleepBegins(t) =>
               cloc'[t].sleep_left = BackoffOf(cloc'[t].failures)]_vars

\* the sixth failed attempt in a row has begun its sleep of 30 units
C12_Witness ==
    \E t \in CapThreads :
        /\ cpc[t] = "backoff"
        /\ cloc[t].failures = 6
        /\ cloc[t].sleep_left = max_reconnect_delay

\* a step in which thread t writes the frame it holds
WriteBy(t) == cpc[t] = "write" /\ cpc'[t] # "write"

\* C19: every write replaces the frame under the lock; the first write
\* after a connect or reconnect leaves fps as it was, and every other write
\* sets it from the time since the previous write.
C19_FpsSkipsFirstFrame ==
    [][\A t \in CapThreads :
          WriteBy(t) =>
             /\ lock = t
             /\ frame' = cloc[t].frame
             /\ cloc[t].fresh => fps' = fps
             /\ (~cloc[t].fresh /\ now > last_frame_time)
                   => fps' = <<1, now - last_frame_time>>]_vars

\* C13: a stream whose target never opens, whatever the kind of source,
\* reports connected = false in every state, never writes a frame (get_frame
\* returns None) and, while running, its capture thread never ends.
C13_UnreachableStaysDisconnected ==
    /\ ~connected
    /\ frame = 0
    /\ got.op = "get_frame" => got.value = None
    /\ running => cpc[thread] # "done"

\* a step that is a call of check_and_alert
IsCheckStep == Len(calls') = Len(calls) + 1

\* C15: when an alert is accepted every registered observer is called once,
\* in registration order, whichever of them raise; the alert is returned,
\* is the last of the history, and the ledger holds its time.
C15_ObserversAllInvoked ==
    [][(IsCheckStep /\ IsAccepted(calls'[Len(calls')])) =>
          LET a == calls'[Len(calls')].result[1] IN
          /\ ret'.invoked = callbacks
          /\ ret'.value = Some(a)
          /\ Len(alerts') > 0
          /\ alerts'[Len(alerts')] = a
          /\ Get(last_alert_time', a.camera_id, 0) = a.timestamp
          /\ alert_counter' = alert_counter + 1]_vars

\* an alert was accepted with two observers registered, the first of which
\* raised
C15_Witness ==
    /\ ret.op = "check_and_alert"
    /\ ret.value # None
    /\ Len(ret.invoked) = 2
    /\ ret.raised = {1}
    /\ Len(alerts) > 0

\* the ledger has an entry for exactly the cameras with an accepted alert,
\* and the entry is the time of the camera's last accepted alert
LedgerOK ==
    /\ DOMAIN last_alert_time \subseteq Cameras
    /\ \A c \in Cameras :
          LET idx == {k \in 1..Len(accepted) : accepted[k].camera_id = c} IN
          IF idx = {}
          THEN c \notin DOMAIN last_alert_time
          ELSE /\ c \in DOMAIN last_alert_time
               /\ \E k \in idx :
                     /\ \A j \in idx : j <= k
                     /\ last_alert_time[c] = accepted[k].timestamp

\* C18: the ledger has an entry for exactly the cameras that have had an
\* alert accepted, each the time of that camera's last accepted alert; a
\* suppressed call changes neither the counter, the ledger nor the history
\* and calls no observer.
C18_LedgerInvariant ==
    /\ []LedgerOK
    /\ [][(IsCheckStep /\ ~IsAccepted(calls'[Len(calls')])) =>
             /\ UNCHANGED <<alert_counter, last_alert_time, alerts, callbacks>>
             /\ ret'.value = None
             /\ ret'.invoked = <<>>]_vars

\* both cameras have an entry and a call has been suppressed
C18_Witness ==
    /\ ret.op = "check_and_alert"
    /\ ret.value = None
    /\ DOMAIN last_alert_time = Cameras
    /\ \E i \in 1..Len(calls) : IsAccepted(calls[i])

----------------------------------------------------------------------------
(* Properties of process_camera *)

\* C14: when detector.detect raises, the iteration submits no threat and
\* publishes no frame, and process_camera goes on to its next iteration.
C14_DetectionFailureSkipsFrame ==
    [][(dpc = "detect" /\ dloc'.failed) =>
          /\ dpc' = "loop"
          /\ events' = events
          /\ calls' = calls]_vars

\* C17: process_camera makes no detection call, submits no threat and
\* publishes no frame in an iteration it began after stop() was called on
\* its camera.
C17_NoIterationAfterStop ==
    dpc \in {"detect", "threats"} => ~dloc.late

\* the "new_alert" events emitted for the alert with the identifier id
NewAlertEvents(id) ==
    SelectSeq(events, LAMBDA e : e.name = "new_alert" /\ e.data.id = id)

\* C20: exactly one "new_alert" event is emitted for every alert
\* check_and_alert returns to process_camera, and none for a suppressed
\* threat.
C20_NewAlertOnce ==
    /\ \A k \in 1..Len(accepted) : Len(NewAlertEvents(accepted[k].id)) = 1
    /\ Len(SelectSeq(events, LAMBDA e : e.name = "new_alert"))
          = Len(accepted)

\* the capture threads that have been started and have not left
\* _capture_loop
AliveCapThreads == {t \in CapThreads : cpc[t] \notin {"unstarted", "done"}}

\* C21: at most one capture thread of the stream is alive at any time,
\* whatever the sequence of start() and stop() calls: a thread that start()
\* creates after stop() has returned never runs beside one left from
\* before the stop.
C21_OneCaptureTask == Cardinality(AliveCapThreads) <= 1

====
